---- MODULE Spec2Model ----
(***************************************************************************)
(* Play-by-play canonicalisation of scrapernhl: family A (QMJHL/OHL/WHL),   *)
(* scrapernhl/qmjhl/scrapers/games.py, clean_pbp; family B (AHL/PWHL),     *)
(* scrapernhl/core/ahl_pwhl_clean.py, clean_ahl_pwhl, as called by         *)
(* scrapernhl/core/hockeytech.py, scrape_game; the batch executor          *)
(* scrapernhl/core/batch.py, BatchScraper, with its rate limiter; and the  *)
(* file cache scrapernhl/core/cache.py, Cache.                             *)
(*                                                                         *)
(* A frame is a sequence of rows (records); a row's position in the        *)
(* sequence is its position in the DataFrame and its field `index` is its  *)
(* pandas index label.  A null numeric cell is NA, a null string cell is   *)
(* NaS.  The field `src` is a history column: the position the row had in  *)
(* the caller's frame.  It is never read by the pipeline.                  *)
(***************************************************************************)
EXTENDS Integers, Sequences, FiniteSets, TLC

VARIABLES
    pbp,      \* the decoded events of one game, in feed order
    nhlify,   \* the nhlify argument
    pc,       \* where the call is
    out,      \* the frame returned
    league,   \* the league of the game
    decoded,  \* the type of the decoded top-level response
    raised,   \* the class of the exception that left the call, or "None"
    futures,  \* BatchScraper: the submitted tasks, by position in items
    result,   \* BatchScraper: the BatchResult being filled
    now,      \* time.time(), in ticks
    last_request_time,  \* BatchScraper._last_request_time
    starts,   \* history: when each call of func started, and how many calls
              \* had started when its _rate_limit_wait read the clock
    cache_dir,  \* Cache: the file under each path of the cache directory
    written   \* history: for each key, the last set or invalidate of that key

vars == <<pbp, nhlify, pc, out, league, decoded, raised, futures, result,
          now, last_request_time, starts, cache_dir, written>>

\* ---------------------------------------------------------------- bounds
MaxRows == 3

MaxItems == 2

MaxTime == 4

\* ------------------------------------------------------------ null cells
NA == -1

NaS == "<NA>"

\* -------------------------------------------------- strings and numbers
\* the decimal numerals pd.to_numeric parses; Digits[k] denotes k-1
Digits == <<"0", "1", "2", "3", "4", "5", "6", "7", "8", "9">>

\* keys of the replace() dictionary, in order: OT_LABELS[k] -> 3 + k
OT_LABELS == <<"1st OT", "2nd OT", "3rd OT", "4th OT", "5th OT",
               "6th OT", "7th OT", "8th OT", "9th OT">>

\* pd.to_numeric(errors="coerce") of one string
to_numeric(str) ==
    IF \E k \in DOMAIN Digits : Digits[k] = str
    THEN (CHOOSE k \in DOMAIN Digits : Digits[k] = str) - 1
    ELSE NA

\* Series.str.extract(r"(\d+)")[0] then pd.to_numeric: the first run of digits
extract_digits(str) ==
    IF \E k \in DOMAIN OT_LABELS : OT_LABELS[k] = str
    THEN CHOOSE k \in DOMAIN OT_LABELS : OT_LABELS[k] = str
    ELSE to_numeric(str)

\* isinstance(p, str) and "OT" in p
contains_OT(str) == \E k \in DOMAIN OT_LABELS : OT_LABELS[k] = str

\* A cell of the period column while it holds both strings and numbers.
NumCell(n) == [tag |-> "num", str |-> NaS, num |-> n]

NullCell == [tag |-> "na", str |-> NaS, num |-> NA]

CellOf(str) == IF str = NaS THEN NullCell ELSE [tag |-> "str", str |-> str, num |-> NA]

CellOfNum(n) == IF n = NA THEN NullCell ELSE NumCell(n)

Min(a, b) == IF a <= b THEN a ELSE b

Abs(a) == IF a < 0 THEN -a ELSE a

RECURSIVE gcd(_, _)
gcd(a, b) == IF b = 0 THEN a ELSE gcd(b, a % b)

\* A float cell whose value is not an integer is held exactly: the quotient
\* n / d as the reduced pair <<n, d>>, d > 0.  The null float cell is NaF.
NaF == <<>>

Rat(n, d) == LET g == gcd(Abs(n), d) IN <<n \div g, d \div g>>

\* ------------------------------------------------------------ the frame
\* df = pbp.copy(); df["orderIdx"] = np.arange(len(df))
copy_frame(frame) ==
    [i \in 1..Len(frame) |->
        [index       |-> i - 1,
         orderIdx    |-> i - 1,
         src         |-> i - 1,
         event       |-> frame[i].event,
         game_id     |-> frame[i].game_id,
         period      |-> CellOf(frame[i].period),
         period_id   |-> frame[i].period_id,
         s           |-> frame[i].s,
         home        |-> frame[i].home,
         shot_type   |-> frame[i].shot_type,
         elapsedTime |-> NA,
         score_home  |-> 0,
         score_away  |-> 0,
         x_location  |-> frame[i].x_location,
         y_location  |-> frame[i].y_location,
         x_norm      |-> NA,
         y_norm      |-> NA,
         x           |-> NaF,
         y           |-> NaF,
         shot_distance_ft |-> NaF,
         shot_angle_deg   |-> NaF,
         home_win       |-> frame[i].home_win,
         player_home    |-> frame[i].player_home,
         player_visitor |-> frame[i].player_visitor,
         normalized     |-> frame[i].normalized,
         player1Id   |-> NA,
         player2Id   |-> NA,
         eventTeamId |-> NA]]

\* ---------------------------------------------------------- player slots
\* A participant sub-object is held as its player_id, the team_id being the
\* tens of it; `normalized` says that the row came with the dotted keys
\* ("player_home.player_id", ...) instead of the nested object.
team_id_of(player) == IF player = NA THEN NA ELSE player \div 10

\* src in df.columns, for the dotted columns of the faceoff participants
has_dotted_columns(df) == \E i \in DOMAIN df : df[i].normalized

\* df.loc[mask, src]: the cell of a dotted column on row r
dotted(r, player) == IF r.normalized THEN player ELSE NA

\* home_win = pd.to_numeric(df.get("home_win", ...), errors="coerce")
home_win_of(r) == to_numeric(r.home_win)

\* lines 241-278: assign(m_hw, {...}); assign(m_hl, {...})
assign_faceoff(df) ==
    IF ~has_dotted_columns(df) THEN df
    ELSE [i \in DOMAIN df |->
             IF df[i].event = "faceoff" /\ home_win_of(df[i]) = 1
             THEN [df[i] EXCEPT
                      !.eventTeamId = team_id_of(dotted(df[i], df[i].player_home)),
                      !.player1Id = dotted(df[i], df[i].player_home),
                      !.player2Id = dotted(df[i], df[i].player_visitor)]
             ELSE IF df[i].event = "faceoff" /\ home_win_of(df[i]) = 0
             THEN [df[i] EXCEPT
                      !.eventTeamId = team_id_of(dotted(df[i], df[i].player_visitor)),
                      !.player1Id = dotted(df[i], df[i].player_visitor),
                      !.player2Id = dotted(df[i], df[i].player_home)]
             ELSE df[i]]

\* lines 401-421: the source columns are dropped
drop_sources(df) ==
    [i \in DOMAIN df |->
        [index       |-> df[i].index,
         orderIdx    |-> df[i].orderIdx,
         src         |-> df[i].src,
         event       |-> df[i].event,
         game_id     |-> df[i].game_id,
         period      |-> df[i].period,
         period_id   |-> df[i].period_id,
         s           |-> df[i].s,
         home        |-> df[i].home,
         shot_type   |-> df[i].shot_type,
         elapsedTime |-> df[i].elapsedTime,
         score_home  |-> df[i].score_home,
         score_away  |-> df[i].score_away,
         x_location  |-> df[i].x_location,
         y_location  |-> df[i].y_location,
         x_norm      |-> df[i].x_norm,
         y_norm      |-> df[i].y_norm,
         x           |-> df[i].x,
         y           |-> df[i].y,
         shot_distance_ft |-> df[i].shot_distance_ft,
         shot_angle_deg   |-> df[i].shot_angle_deg,
         player1Id   |-> df[i].player1Id,
         player2Id   |-> df[i].player2Id,
         eventTeamId |-> df[i].eventTeamId]]

\* ------------------------------------------------------ period resolution
\* df.loc[m_pen, "period"] = to_numeric(df.loc[m_pen, "period"].str.extract(r"(\d+)")[0])
penalty_period(df) ==
    [i \in DOMAIN df |->
        IF df[i].event = "penalty"
        THEN [df[i] EXCEPT !.period =
                 IF @.tag = "str" THEN CellOfNum(extract_digits(@.str)) ELSE NullCell]
        ELSE df[i]]

\* any(isinstance(p, str) and "OT" in p for p in df["period"].unique())
has_playoff_OT(df) ==
    \E i \in DOMAIN df : df[i].period.tag = "str" /\ contains_OT(df[i].period.str)

\* df["period"].replace({"1st OT": 4, ..., "9th OT": 12})
replace_OT(cell) ==
    IF cell.tag = "str" /\ contains_OT(cell.str)
    THEN NumCell(3 + (CHOOSE k \in DOMAIN OT_LABELS : OT_LABELS[k] = cell.str))
    ELSE cell

\* np.where(df["period"].isnull(), df["period_id"], df["period"])
period_id_fallback(cell, period_id) ==
    IF cell.tag = "na" THEN CellOfNum(period_id) ELSE cell

\* pd.to_numeric(df["period"], errors="coerce")
period_to_numeric(cell) ==
    IF cell.tag = "num" THEN cell.num
    ELSE IF cell.tag = "str" THEN to_numeric(cell.str)
    ELSE NA

\* df.drop(["period_id"], axis=1)
drop_period_id(r) ==
    [index       |-> r.index,
     orderIdx    |-> r.orderIdx,
     src         |-> r.src,
     event       |-> r.event,
     game_id     |-> r.game_id,
     period      |-> r.period,
     s           |-> r.s,
     home        |-> r.home,
     shot_type   |-> r.shot_type,
     elapsedTime |-> r.elapsedTime,
     score_home  |-> r.score_home,
     score_away  |-> r.score_away,
     x_location  |-> r.x_location,
     y_location  |-> r.y_location,
     x_norm      |-> r.x_norm,
     y_norm      |-> r.y_norm,
     x           |-> r.x,
     y           |-> r.y,
     shot_distance_ft |-> r.shot_distance_ft,
     shot_angle_deg   |-> r.shot_angle_deg,
     player1Id   |-> r.player1Id,
     player2Id   |-> r.player2Id,
     eventTeamId |-> r.eventTeamId]

\* lines 427-438: the period column becomes numeric (NA where unresolved) and
\* period_id is dropped
resolve_period(df) ==
    [i \in DOMAIN df |->
        drop_period_id(
            [df[i] EXCEPT !.period =
                period_to_numeric(period_id_fallback(replace_OT(@), df[i].period_id))])]

\* ------------------------------------------------------------ gap filling
m_so_event(df, i) == df[i].event = "shootout"

\* df.loc[~m_so_event].groupby("game_id")["period"].ffill(), at position i
group_ffill(df, i) ==
    LET prev == {j \in 1..i : /\ ~m_so_event(df, j)
                              /\ df[j].game_id = df[i].game_id
                              /\ df[j].period # NA}
    IN IF prev = {} THEN NA
       ELSE df[CHOOSE j \in prev : \A k \in prev : k <= j].period

\* .bfill() of the forward-filled series: not grouped, it runs over the
\* whole series of non-shootout rows
series_bfill(df, i) ==
    LET next == {j \in i..Len(df) : ~m_so_event(df, j) /\ group_ffill(df, j) # NA}
    IN IF next = {} THEN NA
       ELSE group_ffill(df, CHOOSE j \in next : \A k \in next : j <= k)

\* Series.fillna(5)
fillna_5(v) == IF v = NA THEN 5 ELSE v

\* lines 441-448
fill_period(df, playoff_OT) ==
    [i \in DOMAIN df |->
        IF m_so_event(df, i) THEN df[i]
        ELSE [df[i] EXCEPT !.period =
                 IF playoff_OT THEN series_bfill(df, i)
                 ELSE fillna_5(series_bfill(df, i))]]

\* ------------------------------------------------------------ elapsed time
\* df.loc[period.notnull(), "elapsedTime"] = s + (period - 1).clip(upper=4) * 20 * 60
elapsed_time(df) ==
    [i \in DOMAIN df |->
        [df[i] EXCEPT !.elapsedTime =
            IF df[i].period # NA /\ df[i].s # NA
            THEN df[i].s + Min(df[i].period - 1, 4) * 20 * 60
            ELSE NA]]

\* ------------------------------------------------------------------- sort
\* the order of sort_values(["game_id", "elapsedTime", "orderIdx"]): nulls last
sort_le(a, b) ==
    \/ a.game_id < b.game_id
    \/ /\ a.game_id = b.game_id
       /\ \/ a.elapsedTime # NA /\ b.elapsedTime = NA
          \/ a.elapsedTime # NA /\ b.elapsedTime # NA /\ a.elapsedTime < b.elapsedTime
          \/ /\ a.elapsedTime = b.elapsedTime
             /\ a.orderIdx <= b.orderIdx

RECURSIVE insert_row(_, _)
\* insert r after every row that is not greater than it (stable)
insert_row(sorted, r) ==
    IF sorted = <<>> THEN <<r>>
    ELSE IF sort_le(Head(sorted), r)
         THEN <<Head(sorted)>> \o insert_row(Tail(sorted), r)
         ELSE <<r>> \o sorted

RECURSIVE sort_values(_)
sort_values(df) ==
    IF df = <<>> THEN <<>>
    ELSE insert_row(sort_values(SubSeq(df, 1, Len(df) - 1)), df[Len(df)])

\* ------------------------------------------------------------------ score
RECURSIVE sum_upto(_, _, _, _)
\* the sum of the series col over the rows 1..j of game g
sum_upto(df, g, col, j) ==
    IF j = 0 THEN 0
    ELSE sum_upto(df, g, col, j - 1) + (IF df[j].game_id = g THEN col[j] ELSE 0)

\* a score column that holds the row's own indicator, not the running sum
group_cumsum_own(df, i, col) == col[i]

\* a running sum that leaves out the row itself
group_cumsum_before(df, i, col) == sum_upto(df, df[i].game_id, col, i - 1)

\* df.groupby("game_id")[col].cumsum(), at position i
group_cumsum(df, i, col) == sum_upto(df, df[i].game_id, col, i)

\* lines 457-470: home becomes numeric; the indicator series _home_goal and
\* _away_goal are summed per game and then dropped
add_scores(df) ==
    LET num == [i \in DOMAIN df |-> [df[i] EXCEPT !.home = to_numeric(@)]]
        home_goal == [i \in DOMAIN df |->
                         IF num[i].event = "goal" /\ num[i].home = 1 THEN 1 ELSE 0]
        away_goal == [i \in DOMAIN df |->
                         IF num[i].event = "goal" /\ num[i].home = 0 THEN 1 ELSE 0]
    IN [i \in DOMAIN df |->
           [num[i] EXCEPT !.score_home = group_cumsum(num, i, home_goal),
                          !.score_away = group_cumsum(num, i, away_goal)]]

\* ------------------------------------------------------------ coordinates
\* "x_location" in df.columns and "y_location" in df.columns: pd.DataFrame
\* makes a column of every key some event has; an event without the key has
\* a null cell
has_coordinates(df) ==
    /\ \E i \in DOMAIN df : df[i].x_location # NA
    /\ \E i \in DOMAIN df : df[i].y_location # NA

\* x_norm = x_location, and 600 - x_location where home is 1, without mirroring
mirror_never(home, x_location) == x_location

\* x_norm = x_location; df.loc[m_home, "x_norm"] = 600 - x_location
mirror(home, x_location) ==
    IF x_location = NA THEN NA
    ELSE IF home = 1 THEN 600 - x_location ELSE x_location

\* (norm - centre) / 3.0
canonical_feet(norm, centre) == IF norm = NA THEN NaF ELSE Rat(norm - centre, 3)

\* (dx**2 + dy**2) ** 0.5 / 3.0, held as the quotient under the root:
\* the distance is sqrt(n / d)
shot_distance(dx, dy) == Rat(dx * dx + dy * dy, 9)

\* abs(np.degrees(np.arctan2(dy, dx))), held as the direction the angle is
\* measured to: <<|dy|, dx>> reduced; arctan2(0, 0) is 0
shot_angle(dx, dy) ==
    LET g == gcd(Abs(dy), Abs(dx))
    IN IF g = 0 THEN <<0, 1>> ELSE <<Abs(dy) \div g, dx \div g>>

\* lines 473-489
coordinates(df) ==
    IF ~has_coordinates(df) THEN df
    ELSE [i \in DOMAIN df |->
            LET x_norm == mirror(df[i].home, df[i].x_location)
                y_norm == df[i].y_location
                known  == x_norm # NA /\ y_norm # NA
            IN [df[i] EXCEPT
                   !.x_norm = x_norm,
                   !.y_norm = y_norm,
                   !.x = canonical_feet(x_norm, 300),
                   !.y = canonical_feet(y_norm, 150),
                   !.shot_distance_ft =
                       IF known THEN shot_distance(600 - x_norm, 150 - y_norm) ELSE NaF,
                   !.shot_angle_deg =
                       IF known THEN shot_angle(600 - x_norm, 150 - y_norm) ELSE NaF]]

\* ----------------------------------------------------------------- nhlify
\* the position of the row labelled `label` (df.at[label, col])
at(df, label) == CHOOSE p \in DOMAIN df : df[p].index = label

\* the next row of the same game: groupby("game_id")[col].shift(-1)
next_in_game(df, p) ==
    LET later == {q \in (p + 1)..Len(df) : df[q].game_id = df[p].game_id}
    IN IF later = {} THEN 0 ELSE CHOOSE q \in later : \A k \in later : q <= k

\* df["_next_event"]
next_event(df, p) == IF next_in_game(df, p) = 0 THEN NaS ELSE df[next_in_game(df, p)].event

\* df["_next_time"]
next_time(df, p) == IF next_in_game(df, p) = 0 THEN NA ELSE df[next_in_game(df, p)].elapsedTime

\* a mask that does not compare the two times
m_shot_before_goal_any_time(df, p) ==
    /\ df[p].event \in {"shot", "penaltyshot"}
    /\ next_event(df, p) = "goal"

\* the mask of lines 509-513 at position p; a null time equals nothing
m_shot_before_goal(df, p) ==
    /\ df[p].event \in {"shot", "penaltyshot"}
    /\ next_event(df, p) = "goal"
    /\ df[p].elapsedTime # NA
    /\ df[p].elapsedTime = next_time(df, p)

\* df[mask]: the rows at the positions in mask, in frame order
select_rows(df, mask) ==
    [k \in 1..Cardinality(mask) |->
        df[CHOOSE p \in mask : Cardinality({q \in mask : q <= p}) = k]]

\* df[m_shot_before_goal].index, in frame order
shot_indices(df) ==
    LET donors == select_rows(df, {p \in DOMAIN df : m_shot_before_goal(df, p)})
    IN [k \in DOMAIN donors |-> donors[k].index]

\* goal_indices = shot_indices + 1
goal_index(shot_idx) == shot_idx + 1

\* valid_mask = goal_indices < len(df)
valid_mask(df, shot_idx) == goal_index(shot_idx) < Len(df)

\* every column but game_id, event, orderIdx and the two temporaries
cols_to_check == {"period", "s", "home", "elapsedTime", "score_home", "score_away",
                  "shot_type", "x_location", "y_location", "x_norm", "y_norm",
                  "x", "y", "shot_distance_ft", "shot_angle_deg",
                  "player1Id", "player2Id", "eventTeamId"}

\* the columns that hold strings
str_cols == {"event", "shot_type"}

\* pd.isna of a cell of column col; the cells of the coordinate columns are
\* held as quotients
isna(col, val) == IF col \in str_cols THEN val = NaS
                  ELSE IF col \in {"x", "y", "shot_distance_ft", "shot_angle_deg"}
                  THEN val = NaF
                  ELSE val = NA

\* goal_is_na: None, pd.NA, a float NaN or an empty string
goal_is_na(col, val) == isna(col, val) \/ (col \in str_cols /\ val = "")

\* shot_has_value
shot_has_value(col, val) == ~isna(col, val) /\ ~(col \in str_cols /\ val = "")

\* lines 532-555 for one column: the value the goal row holds afterwards
copy_col(col, goal_val, shot_val) ==
    IF col \in cols_to_check /\ goal_is_na(col, goal_val) /\ shot_has_value(col, shot_val)
    THEN shot_val
    ELSE goal_val

\* lines 531-555 for one (shot_idx, goal_idx) pair
copy_pair(df, shot_idx, goal_idx) ==
    LET shot == df[at(df, shot_idx)]
    IN [df EXCEPT ![at(df, goal_idx)] =
           [@ EXCEPT !.event       = copy_col("event", @, shot.event),
                     !.game_id     = copy_col("game_id", @, shot.game_id),
                     !.orderIdx    = copy_col("orderIdx", @, shot.orderIdx),
                     !.period      = copy_col("period", @, shot.period),
                     !.s           = copy_col("s", @, shot.s),
                     !.home        = copy_col("home", @, shot.home),
                     !.shot_type   = copy_col("shot_type", @, shot.shot_type),
                     !.elapsedTime = copy_col("elapsedTime", @, shot.elapsedTime),
                     !.score_home  = copy_col("score_home", @, shot.score_home),
                     !.score_away  = copy_col("score_away", @, shot.score_away),
                     !.x_location  = copy_col("x_location", @, shot.x_location),
                     !.y_location  = copy_col("y_location", @, shot.y_location),
                     !.x_norm      = copy_col("x_norm", @, shot.x_norm),
                     !.y_norm      = copy_col("y_norm", @, shot.y_norm),
                     !.x           = copy_col("x", @, shot.x),
                     !.y           = copy_col("y", @, shot.y),
                     !.shot_distance_ft =
                         copy_col("shot_distance_ft", @, shot.shot_distance_ft),
                     !.shot_angle_deg =
                         copy_col("shot_angle_deg", @, shot.shot_angle_deg),
                     !.player1Id   = copy_col("player1Id", @, shot.player1Id),
                     !.player2Id   = copy_col("player2Id", @, shot.player2Id),
                     !.eventTeamId = copy_col("eventTeamId", @, shot.eventTeamId)]]

RECURSIVE copy_pairs(_, _)
\* the loop of line 530 over the valid pairs, in order
copy_pairs(df, shots) ==
    IF shots = <<>> THEN df
    ELSE copy_pairs(IF valid_mask(df, Head(shots))
                    THEN copy_pair(df, Head(shots), goal_index(Head(shots)))
                    ELSE df,
                    Tail(shots))

\* df[~mask], mask a set of positions
drop_rows(df, mask) == select_rows(df, DOMAIN df \ mask)

\* reset_index(drop=True); df["orderIdx"] = np.arange(len(df))
reset_index(df) ==
    [p \in DOMAIN df |-> [df[p] EXCEPT !.index = p - 1, !.orderIdx = p - 1]]

\* lines 503-568
nhlify_merge(df) ==
    LET mask   == {p \in DOMAIN df : m_shot_before_goal(df, p)}
        copied == copy_pairs(df, shot_indices(df))
    IN reset_index(drop_rows(copied, mask))

\* ------------------------------------------------------------- clean_pbp
\* the frame as sorted at line 498, before the nhlify block
sorted_pbp(frame) ==
    LET parsed   == penalty_period(drop_sources(assign_faceoff(copy_frame(frame))))
        filled   == fill_period(resolve_period(parsed), has_playoff_OT(parsed))
        ordered  == sort_values(elapsed_time(filled))
    IN sort_values(coordinates(add_scores(ordered)))

\* a clean_pbp that merges whatever nhlify says
clean_pbp_merge_always(frame, merge) == nhlify_merge(sorted_pbp(frame))

clean_pbp(frame, merge) ==
    IF merge THEN nhlify_merge(sorted_pbp(frame)) ELSE sorted_pbp(frame)

\* ============================================================== family B
\* A family B event is {event, details}; details is held with `present`
\* FALSE when the event has no details object, and each key of details is
\* held with a null (NaS, NA) when the object has no such key.
\*
\* the outcome of a call: the exception that left it and the frame returned
Returned(frame) == [raised |-> "None", frame |-> frame]

Raised(exception) == [raised |-> exception, frame |-> <<>>]

\* str(period_obj.get("id", "1")), period_obj = details.get("period", {})
flat_period(details) == IF details.period = NaS THEN "1" ELSE details.period

\* flatten_ahl_pwhl_event for the event at position i, with the columns
\* clean_ahl_pwhl adds later still empty
flatten_ahl_pwhl_event(event, i) ==
    [index       |-> i - 1,
     orderIdx    |-> i - 1,
     src         |-> i - 1,
     event       |-> event.event,
     game_id     |-> event.game_id,
     period      |-> flat_period(event.details),
     elapsedTime |-> event.details.time,
     x_location  |-> event.details.xLocation,
     y_location  |-> event.details.yLocation,
     shot_type   |-> event.details.shotType,
     is_goal     |-> event.details.isGoal,
     player1Id   |-> event.details.shooter,
     x           |-> NaF,
     y           |-> NaF,
     x_norm      |-> NaF,
     y_norm      |-> NaF,
     shot_distance_ft |-> NaF,
     shot_angle_deg   |-> NaF]

\* a row of the frame when it has no details column: nothing is flattened
unflattened(event, i) ==
    [index       |-> i - 1,
     orderIdx    |-> i - 1,
     src         |-> i - 1,
     event       |-> event.event,
     game_id     |-> event.game_id,
     period      |-> NaS,
     elapsedTime |-> NA,
     x_location  |-> NA,
     y_location  |-> NA,
     shot_type   |-> NaS,
     is_goal     |-> NaS,
     player1Id   |-> NA,
     x           |-> NaF,
     y           |-> NaF,
     x_norm      |-> NaF,
     y_norm      |-> NaF,
     shot_distance_ft |-> NaF,
     shot_angle_deg   |-> NaF]

\* "details" in df.columns: some event of the response has the key
has_details(events) == \E i \in DOMAIN events : events[i].details.present

\* Series.round(2) of the quotient n / d, n >= 0
round2(n, d) == Rat((200 * n + d) \div (2 * d), 100)

\* a - b of two quotients
rat_minus(a, b) == Rat(a[1] * b[2] - b[1] * a[2], a[2] * b[2])

\* a**2 + b**2 of two quotients
rat_sumsq(a, b) == Rat(a[1] * a[1] * b[2] * b[2] + b[1] * b[1] * a[2] * a[2],
                       a[2] * a[2] * b[2] * b[2])

\* a column in which every cell is None has dtype object, and np.sqrt has
\* no loop for it
all_null(df, col) == \A i \in DOMAIN df : df[i][col] = NA

\* lines 121-130 for one row
coordinates_ahl_pwhl(r) ==
    LET x == IF r.x_location = NA THEN NaF ELSE round2(r.x_location * 200, 850)
        y == IF r.y_location = NA THEN NaF ELSE round2(r.y_location * 85, 400)
        x_norm == IF x = NaF THEN NaF ELSE rat_minus(x, <<100, 1>>)
        y_norm == IF y = NaF THEN NaF ELSE rat_minus(y, <<85, 2>>)
        known  == x_norm # NaF /\ y_norm # NaF
    IN [r EXCEPT
           !.x = x,
           !.y = y,
           !.x_norm = x_norm,
           !.y_norm = y_norm,
           \* np.sqrt(x_norm**2 + y_norm**2), held as the quotient under the root
           !.shot_distance_ft = IF known THEN rat_sumsq(x_norm, y_norm) ELSE NaF,
           \* np.degrees(np.arctan2(|y_norm|, |x_norm|)), held as the direction
           !.shot_angle_deg =
               IF known
               THEN shot_angle(Abs(x_norm[1]) * y_norm[2], Abs(y_norm[1]) * x_norm[2])
               ELSE NaF]

\* pd.to_numeric(df["period"], errors="coerce").fillna(1).astype(int)
period_ahl_pwhl(period) ==
    IF period = NaS \/ to_numeric(period) = NA THEN 1 ELSE to_numeric(period)

\* ------------------------------------------------------- _nhlify_ahl_pwhl
\* "goal" in df["event"].values
has_goal_events(df) == \E i \in DOMAIN df : df[i].event = "goal"

\* df.loc[df["is_goal"] == True, "event"] = "goal"
retype_goals(df) ==
    [i \in DOMAIN df |->
        IF df[i].is_goal = "true" THEN [df[i] EXCEPT !.event = "goal"] ELSE df[i]]

\* the order of sort_values(["period", "elapsedTime", "orderIdx"]): nulls last
sort_le_ahl_pwhl(a, b) ==
    \/ a.period < b.period
    \/ /\ a.period = b.period
       /\ \/ a.elapsedTime # NA /\ b.elapsedTime = NA
          \/ a.elapsedTime # NA /\ b.elapsedTime # NA /\ a.elapsedTime < b.elapsedTime
          \/ /\ a.elapsedTime = b.elapsedTime
             /\ a.orderIdx <= b.orderIdx

RECURSIVE insert_row_ahl_pwhl(_, _)
insert_row_ahl_pwhl(sorted, r) ==
    IF sorted = <<>> THEN <<r>>
    ELSE IF sort_le_ahl_pwhl(Head(sorted), r)
         THEN <<Head(sorted)>> \o insert_row_ahl_pwhl(Tail(sorted), r)
         ELSE <<r>> \o sorted

RECURSIVE sort_values_ahl_pwhl(_)
\* df.sort_values(["period", "elapsedTime", "orderIdx"]).reset_index(drop=True)
sort_values_ahl_pwhl(df) ==
    IF df = <<>> THEN <<>>
    ELSE insert_row_ahl_pwhl(sort_values_ahl_pwhl(SubSeq(df, 1, Len(df) - 1)),
                             df[Len(df)])

\* reset_index(drop=True): the label of a row is its position
relabel(df) == [p \in DOMAIN df |-> [df[p] EXCEPT !.index = p - 1]]

\* m_shot & m_goal_after & m_same_time at position p; the shift is not grouped
m_shot_before_goal_ahl_pwhl(df, p) ==
    /\ df[p].event = "shot"
    /\ p < Len(df)
    /\ df[p + 1].event = "goal"
    /\ df[p].elapsedTime # NA
    /\ df[p].elapsedTime = df[p + 1].elapsedTime

\* pd.isna(goal) and pd.notna(shot): the value the goal row holds afterwards
transfer(goal_val, shot_val, null) ==
    IF goal_val = null /\ shot_val # null THEN shot_val ELSE goal_val

\* lines 189-193 for one pair: the columns of shot_cols only
transfer_pair(df, shot_idx, goal_idx) ==
    LET shot == df[at(df, shot_idx)]
    IN [df EXCEPT ![at(df, goal_idx)] =
           [@ EXCEPT !.x = transfer(@, shot.x, NaF),
                     !.y = transfer(@, shot.y, NaF),
                     !.x_norm = transfer(@, shot.x_norm, NaF),
                     !.y_norm = transfer(@, shot.y_norm, NaF),
                     !.shot_distance_ft = transfer(@, shot.shot_distance_ft, NaF),
                     !.shot_angle_deg = transfer(@, shot.shot_angle_deg, NaF),
                     !.shot_type = transfer(@, shot.shot_type, NaS),
                     !.x_location = transfer(@, shot.x_location, NA),
                     !.y_location = transfer(@, shot.y_location, NA)]]

RECURSIVE transfer_pairs(_, _)
\* zip(shot_indices, goal_indices): every donor has a row after it
transfer_pairs(df, shots) ==
    IF shots = <<>> THEN df
    ELSE transfer_pairs(transfer_pair(df, Head(shots), Head(shots) + 1), Tail(shots))

\* lines 169-199
merge_ahl_pwhl(df) ==
    LET sorted == relabel(sort_values_ahl_pwhl(df))
        mask   == {p \in DOMAIN sorted : m_shot_before_goal_ahl_pwhl(sorted, p)}
        shots  == [k \in 1..Cardinality(mask) |-> select_rows(sorted, mask)[k].index]
    IN relabel(drop_rows(transfer_pairs(sorted, shots), mask))

\* _nhlify_ahl_pwhl of a flattened frame
nhlify_ahl_pwhl(df) ==
    IF has_goal_events(df) THEN merge_ahl_pwhl(df) ELSE retype_goals(df)

\* --------------------------------------------------------- clean_ahl_pwhl
\* lines 100-143 of a frame that has a details column
flattened(events) ==
    LET flat == [i \in DOMAIN events |-> flatten_ahl_pwhl_event(events[i], i)]
    IN [i \in DOMAIN flat |->
           [coordinates_ahl_pwhl(flat[i]) EXCEPT !.period = period_ahl_pwhl(@)]]

clean_ahl_pwhl(events, merge) ==
    IF events = <<>>
    THEN \* no column but game_id, league and orderIdx: df["event"] is missing
         IF merge THEN Raised("KeyError") ELSE Returned(<<>>)
    ELSE IF ~has_details(events)
    THEN LET df == [i \in DOMAIN events |-> unflattened(events[i], i)]
         IN IF ~merge THEN Returned(df)
            ELSE IF has_goal_events(df)
            THEN \* sort_values: no column "period"
                 Raised("KeyError")
            ELSE Returned(df)
    ELSE IF \E i \in DOMAIN events : ~events[i].details.present
    THEN \* details is NaN on that row: no attribute "get"
         Raised("AttributeError")
    ELSE IF all_null(flattened(events), "x_location")
              \/ all_null(flattened(events), "y_location")
    THEN Raised("TypeError")
    ELSE Returned(IF merge THEN nhlify_ahl_pwhl(flattened(events))
                  ELSE flattened(events))

\* the frame clean_ahl_pwhl was given, after the call: df is rebound to a new
\* frame only when there is something to flatten (lines 100-106); otherwise
\* df["orderIdx"] = np.arange(len(df)) is an assignment to the caller's frame
caller_frame(events) ==
    IF events # <<>> /\ ~has_details(events)
    THEN [i \in DOMAIN events |-> [events[i] EXCEPT !.orderIdx = i - 1]]
    ELSE events

\* hockeytech.scrape_game for a league of the statviewfeed kind, whose
\* get_api_events returns what json.loads gave
scrape_game(shape, events, merge) ==
    IF shape = "list" THEN clean_ahl_pwhl(events, merge)
    ELSE IF shape = "null"
    THEN \* pd.DataFrame(None) is the empty frame
         clean_ahl_pwhl(<<>>, merge)
    ELSE \* pd.DataFrame of a string or a number
         Raised("ValueError")

\* ------------------------------------------------------------ raw frames
\* an event with the keys x_location and y_location (NA: without the key)
RawRowAt(e, g, p, pid, s, h, st, x, y) ==
    [event |-> e, game_id |-> g, period |-> p, period_id |-> pid, s |-> s,
     home |-> h, shot_type |-> st, x_location |-> x, y_location |-> y,
     home_win |-> NaS, player_home |-> NA, player_visitor |-> NA,
     normalized |-> FALSE]

\* an event without coordinates
RawRow(e, g, p, pid, s, h, st) == RawRowAt(e, g, p, pid, s, h, st, NA, NA)

\* every frame of 1..n rows drawn from Rows, with pd.DataFrame's RangeIndex
Frames(Rows, n) == UNION {[1..k -> Rows] : k \in 1..n}

Games == {1, 2}

\* shots, goals and a shootout attempt of two games at two clock times
OrderRows ==
    {RawRow(e, g, "1", NA, s, "1", NaS) :
        e \in {"shot", "penaltyshot", "goal"}, g \in Games, s \in {30, 60}}
    \cup {RawRow("shootout", g, NaS, NA, 0, "1", NaS) : g \in Games}

\* shots that carry a shot type, goals that may lack one, and a faceoff
MergeRows ==
    {RawRow(e, g, "1", NA, s, "1", st) :
        e \in {"shot", "goal"}, g \in Games, s \in {30, 60}, st \in {NaS, "", "wrist"}}
    \cup {RawRow(e, g, "1", NA, s, "1", st) :
        e \in {"penaltyshot"}, g \in Games, s \in {30, 60}, st \in {"wrist"}}
    \cup {RawRow(e, g, "1", NA, s, "1", st) :
        e \in {"faceoff"}, g \in Games, s \in {30, 60}, st \in {NaS}}

\* goals of either side (or of none), and shots, of two games at two clock times
ScoreRows ==
    {RawRow("goal", g, "1", NA, s, h, NaS) :
        g \in Games, s \in {30, 60}, h \in {"1", "0", ""}}
    \cup {RawRow("shot", g, "1", NA, s, "1", NaS) : g \in Games, s \in {30, 60}}

\* faceoffs, penalties and shootout attempts under regulation, overtime and
\* missing period labels, some with a period_id
\* shots of either side at mirrored places, some without a coordinate, and
\* goals with and without coordinates, of one game at one clock time
CoordRows ==
    {RawRowAt("shot", 1, "1", NA, 30, h, NaS, x, y) :
        h \in {"1", "0"}, x \in {NA, 100, 500}, y \in {NA, 60}}
    \cup {RawRowAt("shot", 1, "1", NA, 60, "1", NaS, 100, 60),
          RawRow("shot", 1, "1", NA, 60, "0", NaS)}
    \cup {RawRowAt("goal", 1, "1", NA, 30, h, NaS, 100, 60) : h \in {"1", "0"}}
    \cup {RawRow("goal", 1, "1", NA, 30, h, NaS) : h \in {"1", "0"}}

PeriodRows ==
    {RawRow(e, g, p, NA, 30, "1", NaS) :
        e \in {"faceoff", "penalty", "shootout"}, g \in Games,
        p \in {NaS, "2", "1st OT", "2nd OT"}}
    \cup {RawRow(e, g, NaS, 3, 30, "1", NaS) : e \in {"faceoff", "shootout"}, g \in Games}

\* faceoffs of the third period and of the first three overtimes
OvertimeRows ==
    {RawRow("faceoff", 1, p, NA, s, "1", NaS) :
        p \in {"3", "1st OT", "2nd OT", "3rd OT"}, s \in {30, 60}}

\* a faceoff between skater 17 of the home team and skater 29 of the
\* visitors, with the home_win label of the feed
RawFaceoff(s, home_win, normalized) ==
    [RawRow("faceoff", 1, "1", NA, s, "1", NaS) EXCEPT
        !.home_win = home_win, !.player_home = 17, !.player_visitor = 29,
        !.normalized = normalized]

\* faceoffs that home won ("1"), lost ("0"), with another label or none, as
\* nested objects and as dotted keys, and a shot and its goal
FaceoffRows ==
    {RawFaceoff(30, hw, n) : hw \in {"1", "0", "2", NaS}, n \in BOOLEAN}
    \cup {RawRow("shot", 1, "1", NA, 30, "1", "wrist"),
          RawRow("goal", 1, "1", NA, 30, "1", NaS)}

\* a family B event with a details object; a null is a key the object lacks,
\* and a null orderIdx a frame without that column
RawEvent(e, p, t, x, y, st, ig, sh) ==
    [event |-> e, game_id |-> 1, orderIdx |-> NA,
     details |-> [present |-> TRUE, period |-> p, time |-> t, xLocation |-> x,
                  yLocation |-> y, shotType |-> st, isGoal |-> ig, shooter |-> sh]]

\* a family B event without a details object
BareEvent(e) ==
    [event |-> e, game_id |-> 1, orderIdx |-> NA,
     details |-> [present |-> FALSE, period |-> NaS, time |-> NA, xLocation |-> NA,
                  yLocation |-> NA, shotType |-> NaS, isGoal |-> NaS, shooter |-> NA]]

\* located shots and penalty shots with and without the isGoal flag, goal
\* events that carry nothing but their time, a shot of the second period, a
\* shot with one coordinate, a faceoff without period, place or shooter, a
\* faceoff without details, and a shot whose period id is no number
AhlPwhlEvents ==
    {RawEvent(e, "1", t, 100, 100, "wrist", ig, 7) :
        e \in {"shot", "penaltyshot"}, t \in {30, 60}, ig \in {"true", NaS}}
    \cup {RawEvent("goal", "1", t, NA, NA, NaS, NaS, NA) : t \in {30, 60}}
    \cup {RawEvent("shot", "2", 30, 100, 100, "wrist", NaS, 7),
          RawEvent("shot", "1", 30, 100, NA, "wrist", "false", 7),
          RawEvent("faceoff", NaS, 30, NA, NA, NaS, NaS, NA),
          BareEvent("faceoff"),
          RawEvent("shot", "OT", 30, 100, 100, "wrist", NaS, 7)}

\* ---------------------------------------------------------- state machine
\* no batch is running
NoBatch ==
    /\ futures = <<>>
    /\ result = [successful |-> <<>>, failed |-> <<>>]
    /\ now = 0
    /\ last_request_time = 0
    /\ starts = <<>>
    /\ cache_dir = <<>>
    /\ written = <<>>

InitWith(Rows) ==
    /\ pbp \in Frames(Rows, MaxRows)
    /\ nhlify \in BOOLEAN
    /\ pc = "raw"
    /\ out = <<>>
    /\ league = "qmjhl"
    /\ decoded = "list"
    /\ raised = "None"
    /\ NoBatch

\* df = df.pipe(clean_pbp, nhlify=nhlify)
CleanPbp ==
    /\ pc = "raw"
    /\ league = "qmjhl"
    /\ out' = clean_pbp(pbp, nhlify)
    /\ pc' = "clean"
    /\ UNCHANGED <<pbp, nhlify, league, decoded, raised, futures, result, now, last_request_time, starts,
                   cache_dir, written>>

\* hockeytech.scrape_game(game_id, league, nhlify, clean_fn=clean_ahl_pwhl)
ScrapeGame ==
    /\ pc = "raw"
    /\ league \in {"ahl", "pwhl"}
    /\ LET call == scrape_game(decoded, pbp, nhlify)
       IN /\ raised' = call.raised
          /\ out' = call.frame
          /\ pc' = IF call.raised = "None" THEN "clean" ELSE "error"
    /\ pbp' = IF decoded = "list" THEN caller_frame(pbp) ELSE pbp
    /\ UNCHANGED <<nhlify, league, decoded, futures, result, now, last_request_time, starts,
                   cache_dir, written>>

Next == CleanPbp

NextAhlPwhl == ScrapeGame

NextLeagues == CleanPbp \/ ScrapeGame

Init == InitWith(OrderRows)

InitMerge == InitWith(MergeRows)

InitScore == InitWith(ScoreRows)

InitPeriod == InitWith(PeriodRows)

InitCoord == InitWith(CoordRows)

InitFaceoff == InitWith(FaceoffRows)

InitOvertime == InitWith(OvertimeRows)

\* the decoded responses: a list of 0..MaxRows events, or a JSON string, number
\* or null
InitAhlPwhl ==
    /\ decoded \in {"list", "str", "int", "null"}
    /\ pbp \in IF decoded = "list"
               THEN {<<>>} \cup Frames(AhlPwhlEvents, MaxRows)
               ELSE {<<>>}
    /\ nhlify \in BOOLEAN
    /\ league \in {"ahl", "pwhl"}
    /\ pc = "raw"
    /\ out = <<>>
    /\ raised = "None"
    /\ NoBatch

Spec == Init /\ [][Next]_vars

SpecMerge == InitMerge /\ [][Next]_vars

SpecScore == InitScore /\ [][Next]_vars

SpecPeriod == InitPeriod /\ [][Next]_vars

SpecCoord == InitCoord /\ [][Next]_vars

SpecFaceoff == InitFaceoff /\ [][Next]_vars

SpecOvertime == InitOvertime /\ [][Next]_vars

SpecAhlPwhl == InitAhlPwhl /\ [][NextAhlPwhl]_vars

\* a game of either family, the AHL standing for family B
InitLeagues == InitWith(OrderRows) \/ (InitAhlPwhl /\ league = "ahl")

SpecLeagues == InitLeagues /\ [][NextLeagues]_vars

\* ==================================================== _expand_on_ice_wide
\* A frame here is its set of list columns and its rows.  A list cell is null
\* or holds a list of participant records; the columns {prefix}Player{k}Id,
\* ...JerseyNumber, ...TeamId, ...Team, ...FirstName, ...LastName of a row are
\* held as the sequence {prefix}Player of slots k = 1, 2, ..., a null in a slot
\* standing for a null cell or for a column the frame does not have.
NullList == [isna |-> TRUE, list |-> <<>>]

ListCell(list) == [isna |-> FALSE, list |-> list]

\* a participant record of the feed, a null being a key it lacks
Participant(id, jersey) ==
    [player_id |-> id, jersey_number |-> jersey, team_id |-> id \div 10,
     team_code |-> IF id < 20 THEN "HOME" ELSE "AWAY",
     first_name |-> IF id < 20 THEN "Ann" ELSE "Bea", last_name |-> "Roy"]

\* keymap: the attributes of one list element under their column suffixes
slot_of(player) ==
    [Id |-> player.player_id, JerseyNumber |-> player.jersey_number,
     TeamId |-> player.team_id, Team |-> player.team_code,
     FirstName |-> player.first_name, LastName |-> player.last_name]

NullSlot ==
    [Id |-> NA, JerseyNumber |-> NA, TeamId |-> NA, Team |-> NaS,
     FirstName |-> NaS, LastName |-> NaS]

\* long = out[["_row_id", col]].explode(col); long = long[long[col].notna()]:
\* a null cell and an empty list both explode into one null row
long_empty(df, col) ==
    \A i \in DOMAIN df.rows : df.rows[i][col].isna \/ df.rows[i][col].list = <<>>

\* the largest _p = groupby("_row_id").cumcount().add(1) of the frame
longest(df, col) ==
    IF long_empty(df, col) THEN 0
    ELSE CHOOSE n \in 1..100 :
            /\ \E i \in DOMAIN df.rows : Len(df.rows[i][col].list) = n
            /\ \A i \in DOMAIN df.rows : Len(df.rows[i][col].list) <= n

\* the slots of one row in reverse list order
wide_row_reversed(list, n) ==
    [k \in 1..n |-> IF k <= Len(list) THEN slot_of(list[Len(list) + 1 - k]) ELSE NullSlot]

\* pivot_table(index="_row_id", columns="_p", values=keep, aggfunc="first")
\* and the left merge on _row_id, for one row: slot k holds element k
wide_row(list, n) ==
    [k \in 1..n |-> IF k <= Len(list) THEN slot_of(list[k]) ELSE NullSlot]

\* the prefixed columns of a row
with_wide(r, col, wide) ==
    IF col = "plus" THEN [r EXCEPT !.plusPlayer = wide]
    ELSE [r EXCEPT !.minusPlayer = wide]

\* out.drop(columns=[col]) whatever drop_source is
drop_source_always(df, col, drop_source) ==
    [columns |-> df.columns \ {col},
     rows |-> [i \in DOMAIN df.rows |-> [df.rows[i] EXCEPT ![col] = NullList]]]

\* return out.drop(columns=[col]) if drop_source else out
drop_source_column(df, col, drop_source) ==
    IF drop_source
    THEN [columns |-> df.columns \ {col},
          rows |-> [i \in DOMAIN df.rows |-> [df.rows[i] EXCEPT ![col] = NullList]]]
    ELSE df

\* _expand_on_ice_wide(df, col, prefix=col, drop_source)
expand_on_ice_wide(df, col, drop_source) ==
    IF col \notin df.columns THEN df
    ELSE IF long_empty(df, col) THEN drop_source_column(df, col, drop_source)
    ELSE LET n == longest(df, col)
             out_ == [i \in DOMAIN df.rows |->
                        with_wide(df.rows[i], col, wide_row(df.rows[i][col].list, n))]
         IN drop_source_column([df EXCEPT !.rows = out_], col, drop_source)

\* goals of three skaters, two of the home team, one of them without jersey
\* number, and one of the visitors.  The plus cells: null, empty, one skater,
\* two skaters in both orders; the minus cells: null, empty, one skater
OnIceRows ==
    {[index |-> 0, event |-> "goal", plus |-> p, minus |-> m,
      plusPlayer |-> <<>>, minusPlayer |-> <<>>] :
        p \in {NullList, ListCell(<<>>), ListCell(<<Participant(11, NA)>>),
               ListCell(<<Participant(17, 17), Participant(29, 9)>>),
               ListCell(<<Participant(29, 9), Participant(17, 17)>>)},
        m \in {NullList, ListCell(<<>>), ListCell(<<Participant(29, 9)>>)}}

\* pd.DataFrame(data): the index is 0..len-1, and a list column exists when
\* some event has the key
OnIceFrame(columns, rows) ==
    [columns |-> columns,
     rows |-> [i \in DOMAIN rows |->
                 [rows[i] EXCEPT !.index = i - 1,
                                 !.plus = IF "plus" \in columns THEN @ ELSE NullList,
                                 !.minus = IF "minus" \in columns THEN @ ELSE NullList]]]

InitOnIce ==
    /\ pbp \in {OnIceFrame(columns, rows) :
                   columns \in {{}, {"minus"}, {"plus", "minus"}},
                   rows \in {<<>>} \cup Frames(OnIceRows, MaxRows)}
    /\ nhlify \in {FALSE}
    /\ pc = "raw"
    /\ out = <<>>
    /\ league = "qmjhl"
    /\ decoded = "list"
    /\ raised = "None"
    /\ NoBatch

\* df = _expand_on_ice_wide(df, col="plus", prefix="plus", drop_source=False)
ExpandPlus ==
    /\ pc = "raw"
    /\ out' = expand_on_ice_wide(pbp, "plus", FALSE)
    /\ pc' = "plus"
    /\ UNCHANGED <<pbp, nhlify, league, decoded, raised, futures, result, now, last_request_time, starts,
                   cache_dir, written>>

\* df = _expand_on_ice_wide(df, col="minus", prefix="minus", drop_source=False)
ExpandMinus ==
    /\ pc = "plus"
    /\ out' = expand_on_ice_wide(out, "minus", FALSE)
    /\ pc' = "minus"
    /\ UNCHANGED <<pbp, nhlify, league, decoded, raised, futures, result, now, last_request_time, starts,
                   cache_dir, written>>

NextOnIce == ExpandPlus \/ ExpandMinus

SpecOnIce == InitOnIce /\ [][NextOnIce]_vars

\* ========================================================== BatchScraper
\* BatchScraper(max_workers=2, rate_limit=None, max_retries=3)
max_workers == 2

max_retries == 3

\* what one call func(item) does: it returns, or raises a RateLimitError
\* (whose retry_after is None unless the response had a Retry-After header),
\* an APIError or another exception
Outcomes ==
    {[kind |-> "return", retry_after |-> NA],
     [kind |-> "RateLimitError", retry_after |-> NA],
     [kind |-> "RateLimitError", retry_after |-> 2],
     [kind |-> "APIError", retry_after |-> NA],
     [kind |-> "Exception", retry_after |-> NA]}

\* what func returns for an item
data_of(item) == <<"data", item>>

\* executor.submit(self._execute_with_retry, func, item): a future that has
\* not run yet.  attempt counts the calls of func made and calls holds what
\* each did; success, data and error are the tuple the task returns;
\* exception is what the task raised; step and wake are where the task is in
\* _rate_limit_wait and the time its sleep ends, seen the number of calls
\* that had started when it read the clock
submit(item) ==
    [item |-> item, state |-> "pending", attempt |-> 0, calls |-> <<>>,
     step |-> "check", wake |-> 0, seen |-> 0, last_error |-> NaS,
     success |-> FALSE, data |-> <<>>, error |-> NaS, exception |-> "None",
     collected |-> FALSE]

\* return False, None, last_error
give_up(f) == [f EXCEPT !.state = "finished", !.success = FALSE, !.error = f.last_error]

\* the end of one iteration of `for attempt in range(self.max_retries)`
next_attempt(f) ==
    IF f.attempt + 1 < max_retries THEN [f EXCEPT !.attempt = @ + 1]
    ELSE give_up([f EXCEPT !.attempt = @ + 1])

\* one iteration of the loop of _execute_with_retry, func doing o
execute_attempt(f0, o) ==
    LET f == [f0 EXCEPT !.calls = Append(@, o.kind)]
    IN
    IF o.kind = "return"
    THEN [f EXCEPT !.state = "finished", !.attempt = @ + 1, !.success = TRUE,
                   !.data = data_of(f.item)]
    ELSE IF o.kind = "RateLimitError"
    THEN IF o.retry_after = NA
         THEN \* getattr(e, "retry_after", ...) is None: time.sleep(None)
              [f EXCEPT !.state = "finished", !.attempt = @ + 1,
                        !.last_error = o.kind, !.exception = "TypeError"]
         ELSE next_attempt([f EXCEPT !.last_error = o.kind])
    ELSE IF o.kind = "APIError"
    THEN next_attempt([f EXCEPT !.last_error = o.kind])
    ELSE \* break
         give_up([f EXCEPT !.attempt = @ + 1, !.last_error = o.kind])

running == {i \in DOMAIN futures : futures[i].state = "running"}

pending == {i \in DOMAIN futures : futures[i].state = "pending"}

\* scrape_batch(items, func) after every task has been submitted, at time t
Submitted(t) ==
    /\ \E n \in 0..MaxItems : futures = [i \in 1..n |-> submit(i)]
    /\ result = [successful |-> <<>>, failed |-> <<>>]
    /\ pc = "batch"
    /\ raised = "None"
    /\ pbp = <<>>
    /\ out = <<>>
    /\ nhlify = FALSE
    /\ league = "nhl"
    /\ decoded = "list"
    /\ now = t
    /\ last_request_time = 0
    /\ starts = <<>>
    /\ cache_dir = <<>>
    /\ written = <<>>

\* rate_limit is None: _rate_limit_wait returns at once, time plays no part
InitBatch == Submitted(0)

\* a free worker of the pool takes the next task of the queue
RunTask ==
    /\ pc \in {"batch", "shutdown"}
    /\ pending # {}
    /\ Cardinality(running) < max_workers
    /\ LET i == CHOOSE i \in pending : \A j \in pending : i <= j
       IN futures' = [futures EXCEPT ![i].state = "running"]
    /\ UNCHANGED <<pbp, nhlify, pc, out, league, decoded, raised, result,
                   now, last_request_time, starts,
                   cache_dir, written>>

\* a running task goes through one iteration of its retry loop
Attempt ==
    /\ pc \in {"batch", "shutdown"}
    /\ \E i \in running, o \in Outcomes :
          futures' = [futures EXCEPT ![i] = execute_attempt(@, o)]
    /\ UNCHANGED <<pbp, nhlify, pc, out, league, decoded, raised, result,
                   now, last_request_time, starts,
                   cache_dir, written>>

\* one iteration of `for future in as_completed(future_to_item)`
Collect ==
    /\ pc = "batch"
    /\ \E i \in DOMAIN futures :
          /\ futures[i].state = "finished"
          /\ ~futures[i].collected
          /\ futures' = [futures EXCEPT ![i].collected = TRUE]
          /\ IF futures[i].exception # "None"
             THEN \* future.result() raises: the with block is left, and the
                  \* executor waits for the tasks still queued or running
                  /\ raised' = futures[i].exception
                  /\ pc' = "shutdown"
                  /\ UNCHANGED result
             ELSE /\ result' =
                        IF futures[i].success
                        THEN [result EXCEPT !.successful = Append(@, futures[i].data)]
                        ELSE [result EXCEPT !.failed =
                                 Append(@, [item |-> futures[i].item,
                                            error |-> futures[i].error])]
                  /\ UNCHANGED <<pc, raised>>
    /\ UNCHANGED <<pbp, nhlify, out, league, decoded, now, last_request_time, starts,
                   cache_dir, written>>

\* every future has been handled (or there was no item): return result
ReturnResult ==
    /\ pc = "batch"
    /\ \A i \in DOMAIN futures : futures[i].collected
    /\ pc' = "returned"
    /\ UNCHANGED <<pbp, nhlify, out, league, decoded, raised, futures, result, now, last_request_time, starts,
                   cache_dir, written>>

\* the executor has shut down: the exception leaves scrape_batch
Propagate ==
    /\ pc = "shutdown"
    /\ \A i \in DOMAIN futures : futures[i].state = "finished"
    /\ pc' = "error"
    /\ UNCHANGED <<pbp, nhlify, out, league, decoded, raised, futures, result, now, last_request_time, starts,
                   cache_dir, written>>

NextBatch == RunTask \/ Attempt \/ Collect \/ ReturnResult \/ Propagate

SpecBatch == InitBatch /\ [][NextBatch]_vars

\* ------------------------------------------------------ _rate_limit_wait
\* BatchScraper(rate_limit=r): 1.0 / rate_limit, in ticks
min_request_interval == 2

\* _last_request_time is 0.0 and time.time() is far past one interval
InitRateLimit == Submitted(min_request_interval)

\* elapsed = time.time() - self._last_request_time and the test of it
RateLimitCheck ==
    /\ pc = "batch"
    /\ \E i \in running :
          /\ futures[i].step = "check"
          /\ LET elapsed == now - last_request_time
             IN futures' =
                   IF elapsed < min_request_interval
                   THEN [futures EXCEPT ![i].step = "sleep",
                                        ![i].seen = Len(starts),
                                        ![i].wake = now + (min_request_interval - elapsed)]
                   ELSE [futures EXCEPT ![i].step = "start",
                                        ![i].seen = Len(starts)]
    /\ UNCHANGED <<pbp, nhlify, pc, out, league, decoded, raised, result,
                   now, last_request_time, starts,
                   cache_dir, written>>

\* time.sleep(wait_time) is over
RateLimitSleep ==
    /\ pc = "batch"
    /\ \E i \in running :
          /\ futures[i].step = "sleep"
          /\ now >= futures[i].wake
          /\ futures' = [futures EXCEPT ![i].step = "start"]
    /\ UNCHANGED <<pbp, nhlify, pc, out, league, decoded, raised, result,
                   now, last_request_time, starts,
                   cache_dir, written>>

\* self._last_request_time = time.time(), and func(item) starts at once
\* and returns or raises an exception that is not retried
StartCall ==
    /\ pc = "batch"
    /\ \E i \in running,
          o \in {[kind |-> "return", retry_after |-> NA],
                 [kind |-> "Exception", retry_after |-> NA]} :
          /\ futures[i].step = "start"
          /\ futures' = [futures EXCEPT ![i] = execute_attempt([@ EXCEPT !.step = "check"], o)]
          /\ starts' = Append(starts, [at |-> now, seen |-> futures[i].seen])
    /\ last_request_time' = now
    /\ UNCHANGED <<pbp, nhlify, pc, out, league, decoded, raised, result, now,
                   cache_dir, written>>

\* time passes
Tick ==
    /\ pc \in {"batch", "cache"}
    /\ now < MaxTime
    /\ now' = now + 1
    /\ UNCHANGED <<pbp, nhlify, pc, out, league, decoded, raised, futures, result,
                   last_request_time, starts,
                   cache_dir, written>>

NextRateLimit ==
    RunTask \/ RateLimitCheck \/ RateLimitSleep \/ StartCall \/ Tick
        \/ Collect \/ ReturnResult

SpecRateLimit == InitRateLimit /\ [][NextRateLimit]_vars

\* the worker threads of the pool keep running: a queued task is started and
\* a started task goes on with its loop
FairBatch == SpecBatch /\ WF_vars(RunTask) /\ WF_vars(Attempt)

\* ================================================================= Cache
\* A key is the sequence of its characters.  Cache(enabled=True) on a fresh
\* directory; a value is held with its Python type, and None is NoValue.
\* out is the last call: the operation, its key, what it returned and when.
alnum ==
    {"a", "b", "c", "d", "e", "f", "g", "h", "i", "j", "k", "l", "m", "n", "o",
     "p", "q", "r", "s", "t", "u", "v", "w", "x", "y", "z",
     "A", "B", "C", "D", "E", "F", "G", "H", "I", "J", "K", "L", "M", "N", "O",
     "P", "Q", "R", "S", "T", "U", "V", "W", "X", "Y", "Z",
     "0", "1", "2", "3", "4", "5", "6", "7", "8", "9"}

\* "".join(c if c.isalnum() or c in "-_" else "_" for c in key): the file
\* name without its directory and its .json
get_cache_path(key) ==
    [k \in DOMAIN key |->
        IF key[k] \in alnum \/ key[k] \in {"-", "_"} THEN key[k] ELSE "_"]

\* the keys "g/1", "g_1" and "g-1"
Keys == {<<"g", "/", "1">>, <<"g", "_", "1">>, <<"g", "-", "1">>}

NoValue == [type |-> "None", v |-> 0]

\* json.load of json.dump(value): a tuple comes back as a list
json_roundtrip(value) ==
    IF value.type = "tuple" THEN [value EXCEPT !.type = "list"] ELSE value

NoFile == [exists |-> FALSE, key |-> <<>>, data |-> NoValue, timestamp |-> 0, ttl |-> NA]

\* CacheEntry(key, data, timestamp, ttl) as read back from its file
CacheEntry(key, value, timestamp, ttl) ==
    [exists |-> TRUE, key |-> key, data |-> json_roundtrip(value),
     timestamp |-> timestamp, ttl |-> ttl]

\* CacheEntry.is_expired at time t
is_expired(entry, t) ==
    IF entry.ttl = NA THEN FALSE ELSE (t - entry.timestamp) > entry.ttl

\* what Cache.get(key) returns at time t with the directory dir
get(dir, key, t) ==
    LET entry == dir[get_cache_path(key)]
    IN IF ~entry.exists THEN NoValue
       ELSE IF is_expired(entry, t) THEN NoValue
       ELSE entry.data

\* the directory after cache_path.unlink() for the key
invalidate(dir, key) == [dir EXCEPT ![get_cache_path(key)] = NoFile]

InitCache ==
    /\ cache_dir = [path \in {get_cache_path(key) : key \in Keys} |-> NoFile]
    /\ written = [key \in Keys |-> NoFile]
    /\ pc = "cache"
    /\ out = [op |-> "init", key |-> <<>>, value |-> NoValue, at |-> 0]
    /\ now = 0
    /\ pbp = <<>>
    /\ nhlify = FALSE
    /\ league = "nhl"
    /\ decoded = "list"
    /\ raised = "None"
    /\ futures = <<>>
    /\ result = [successful |-> <<>>, failed |-> <<>>]
    /\ last_request_time = 0
    /\ starts = <<>>

\* Cache.set(key, value, ttl), of an int or of a tuple holding one
CacheSet ==
    /\ pc = "cache"
    /\ \E key \in Keys, ttl \in {NA, 1},
          value \in {[type |-> "int", v |-> 7], [type |-> "tuple", v |-> 8]} :
          /\ cache_dir' = [cache_dir EXCEPT ![get_cache_path(key)] =
                               CacheEntry(key, value, now, ttl)]
          /\ written' = [written EXCEPT ![key] = CacheEntry(key, value, now, ttl)]
          /\ out' = [op |-> "set", key |-> key, value |-> NoValue, at |-> now]
    /\ UNCHANGED <<pbp, nhlify, pc, league, decoded, raised, futures, result,
                   now, last_request_time, starts>>

\* Cache.get(key): an expired entry is invalidated
CacheGet ==
    /\ pc = "cache"
    /\ \E key \in Keys :
          /\ out' = [op |-> "get", key |-> key, value |-> get(cache_dir, key, now),
                   at |-> now]
          /\ IF /\ cache_dir[get_cache_path(key)].exists
                /\ is_expired(cache_dir[get_cache_path(key)], now)
             THEN /\ cache_dir' = invalidate(cache_dir, key)
                  /\ written' = [written EXCEPT ![key] = NoFile]
             ELSE UNCHANGED <<cache_dir, written>>
    /\ UNCHANGED <<pbp, nhlify, pc, league, decoded, raised, futures, result,
                   now, last_request_time, starts>>

\* Cache.invalidate(key)
CacheInvalidate ==
    /\ pc = "cache"
    /\ \E key \in Keys :
          /\ cache_dir' = invalidate(cache_dir, key)
          /\ written' = [written EXCEPT ![key] = NoFile]
          /\ out' = [op |-> "invalidate", key |-> key, value |-> NoValue, at |-> now]
    /\ UNCHANGED <<pbp, nhlify, pc, league, decoded, raised, futures, result,
                   now, last_request_time, starts>>

NextCache == CacheSet \/ CacheGet \/ CacheInvalidate \/ Tick

SpecCache == InitCache /\ [][NextCache]_vars

\* =================================================================== claims
\* the nhlify=False result of the same input: the canonical order, unmerged
Unmerged == clean_pbp(pbp, FALSE)

\* position p of frame holds a shot or penaltyshot that is immediately
\* followed by a goal of the same game at the same, non-null, elapsed time
is_donor(frame, p) ==
    /\ p < Len(frame)
    /\ frame[p].event \in {"shot", "penaltyshot"}
    /\ frame[p + 1].event = "goal"
    /\ frame[p + 1].game_id = frame[p].game_id
    /\ frame[p].elapsedTime # NA
    /\ frame[p + 1].elapsedTime = frame[p].elapsedTime

\* position p of frame holds the goal of such a pair
is_pair_goal(frame, p) == p > 1 /\ is_donor(frame, p - 1)

donors(frame) == {p \in DOMAIN frame : is_donor(frame, p)}

\* the rows of frame that stem from input row src
rows_of(frame, src) == {q \in DOMAIN frame : frame[q].src = src}

\* the fields of a row that describe the event (not the index bookkeeping)
Fields == {"event", "game_id", "period", "s", "home", "elapsedTime",
           "score_home", "score_away", "shot_type", "x_location", "y_location",
           "x_norm", "y_norm", "x", "y", "shot_distance_ft", "shot_angle_deg"}

is_null(col, val) == goal_is_na(col, val)

same_fields(a, b) == \A col \in Fields : a[col] = b[col]

\* frame is ordered by (game id, elapsed time) over its timed rows, ties in
\* input order
ordered(frame) ==
    /\ \A p \in 1..(Len(frame) - 1) :
          (frame[p].elapsedTime # NA /\ frame[p + 1].elapsedTime # NA) =>
             \/ frame[p].game_id < frame[p + 1].game_id
             \/ /\ frame[p].game_id = frame[p + 1].game_id
                /\ frame[p].elapsedTime <= frame[p + 1].elapsedTime
    /\ \A p, q \in DOMAIN frame :
          (/\ p < q
           /\ frame[p].game_id = frame[q].game_id
           /\ frame[p].elapsedTime # NA
           /\ frame[p].elapsedTime = frame[q].elapsedTime) => frame[p].src < frame[q].src

\* C1: for both values of nhlify and every input order, consecutive output
\* rows with non-null elapsed times are in non-decreasing order of (game id,
\* elapsed time), and rows of equal game id and elapsed time are in their
\* original input order.
C1_Ordering == pc = "clean" => ordered(out)

\* C1 restricted to nhlify=False, where the output is the sorted frame itself
C1_OrderingUnmerged == (pc = "clean" /\ ~nhlify) => ordered(out)

\* the goal of every pair of base holds, in merged, the donor's value where
\* its own was null or empty and the donor's was not, and its own value where
\* it had one
field_fill(base, merged) ==
    \A p \in donors(base) :
        \E q \in rows_of(merged, base[p + 1].src) :
            \A col \in Fields :
               /\ (is_null(col, base[p + 1][col]) /\ ~is_null(col, base[p][col]))
                     => merged[q][col] = base[p][col]
               /\ ~is_null(col, base[p + 1][col]) => merged[q][col] = base[p + 1][col]

\* C2: with nhlify=True, for each pair adjacent after sorting (a shot or
\* penaltyshot immediately followed by a goal of the same game at the same
\* elapsed time) the surviving goal row holds the donor's value in every
\* field that was null or empty in the goal and set in the donor, and its own
\* value in every field that was already set.
C2_MergeFieldFill == (pc = "clean" /\ nhlify) => field_fill(Unmerged, out)

\* every row of base outside the pairs is in merged with the same fields
pass_through(base, merged) ==
    \A p \in DOMAIN base :
        (~is_donor(base, p) /\ ~is_pair_goal(base, p)) =>
            \E q \in rows_of(merged, base[p].src) : same_fields(merged[q], base[p])

\* C3: every row that is neither the donor nor the goal of an adjacent pair
\* has the same field values with nhlify=True as with nhlify=False.
C3_PassThrough == (pc = "clean" /\ nhlify) => pass_through(Unmerged, out)

row_count(base, merged) == Len(merged) = Len(base) - Cardinality(donors(base))

\* C4: the nhlify=True output has as many rows as the nhlify=False output
\* minus the number of positions of the sorted sequence where a shot or
\* penaltyshot is immediately followed, in the same game, by a goal at the
\* same elapsed time.
C4_RowCount == (pc = "clean" /\ nhlify) => row_count(Unmerged, out)

\* one pair of base is merged and another shot of the same game, at another
\* time, is kept
one_merge(base, merged) ==
    /\ Cardinality(donors(base)) = 1
    /\ Len(merged) = Len(base) - 1
    /\ \E p \in DOMAIN base \ donors(base), d \in donors(base) :
          /\ base[p].event = "shot"
          /\ base[p].game_id = base[d].game_id
          /\ base[p].elapsedTime # base[d].elapsedTime
          /\ rows_of(merged, base[p].src) # {}

C4_Witness == pc = "clean" /\ nhlify /\ one_merge(Unmerged, out)

\* every row of base is in merged at most once, and is absent exactly when it
\* is the donor of the goal that follows it in its game at its time; no goal
\* row is absent
rows_removed(base, merged) ==
    /\ \A p \in DOMAIN base :
          /\ Cardinality(rows_of(merged, base[p].src)) <= 1
          /\ rows_of(merged, base[p].src) = {} <=> is_donor(base, p)
    /\ \A p \in DOMAIN base :
          base[p].event = "goal" => rows_of(merged, base[p].src) # {}

\* the only rows of merged that took a value in are goals of a pair, and they
\* took it from the donor immediately before them
absorbed_from_donor(base, merged) ==
    \A q \in DOMAIN merged :
        \A p \in rows_of(base, merged[q].src) :
           \/ same_fields(merged[q], base[p])
           \/ /\ is_pair_goal(base, p)
              /\ \A col \in Fields :
                    merged[q][col] = base[p][col] \/ merged[q][col] = base[p - 1][col]

\* C5: each goal row absorbs at most one donor, the row immediately before it
\* after sorting; each donor is absorbed by at most one goal; a goal is never
\* a donor; a pair that spans two games is never merged; every input row is in
\* the output exactly once or, if absorbed, not at all.
C5_AtMostOneMerge ==
    (pc = "clean" /\ nhlify) =>
        (rows_removed(Unmerged, out) /\ absorbed_from_donor(Unmerged, out))

\* C5 as to which rows are removed and which are kept
C5_RowsRemoved == (pc = "clean" /\ nhlify) => rows_removed(Unmerged, out)

\* C6: for both nhlify settings and every input order, score_home and
\* score_away never decrease from one output row to the next row of the same
\* game.
C6_ScoreMonotone ==
    pc = "clean" =>
        \A p \in 1..(Len(out) - 1) :
            out[p].game_id = out[p + 1].game_id =>
                /\ out[p].score_home <= out[p + 1].score_home
                /\ out[p].score_away <= out[p + 1].score_away

\* both scores of one game rise along the output
C6_Witness ==
    /\ pc = "clean"
    /\ \E p, q \in 1..(Len(out) - 1) :
          /\ out[p].game_id = out[p + 1].game_id
          /\ out[p].score_home < out[p + 1].score_home
          /\ out[q].game_id = out[q + 1].game_id
          /\ out[q].score_away < out[q + 1].score_away

\* the goals of side h ("1" home, "0" away) in raw that belong to the game of
\* the row at position q of base and are at or before it in base
goals_so_far(raw, base, h, q) ==
    {p \in 1..q :
        /\ raw[base[p].src + 1].event = "goal"
        /\ raw[base[p].src + 1].home = h
        /\ raw[base[p].src + 1].game_id = raw[base[q].src + 1].game_id}

\* each row of merged shows the goals of its game up to and including itself
inclusive_score(raw, base, merged) ==
    \A r \in DOMAIN merged :
        \A q \in rows_of(base, merged[r].src) :
            /\ merged[r].score_home = Cardinality(goals_so_far(raw, base, "1", q))
            /\ merged[r].score_away = Cardinality(goals_so_far(raw, base, "0", q))

\* C7: at every output row score_home (score_away) is the number of goals
\* with home=1 (home=0) of the same game at or before that row in canonical
\* order, the row itself included, for nhlify=True as for nhlify=False.
C7_InclusiveScore == pc = "clean" => inclusive_score(pbp, Unmerged, out)

\* a merged output whose goal row shows a score that counts the goal itself
\* and an earlier one
C7_Witness ==
    /\ pc = "clean" /\ nhlify
    /\ Len(out) < Len(pbp)
    /\ \E q \in DOMAIN out :
          /\ out[q].event = "goal"
          /\ out[q].score_home + out[q].score_away = 2

\* C8: for every event type, penalties included, a raw period label
\* "k-th OT", k in 1..9, yields canonical period 3 + k.
C8_OvertimeLabels ==
    pc = "clean" =>
        \A q \in DOMAIN out :
            \A k \in DOMAIN OT_LABELS :
                pbp[out[q].src + 1].period = OT_LABELS[k] => out[q].period = 3 + k

\* C8 for every event but the penalty
C8_OvertimeLabelsNoPenalty ==
    pc = "clean" =>
        \A q \in DOMAIN out :
            \A k \in DOMAIN OT_LABELS :
                (pbp[out[q].src + 1].period = OT_LABELS[k] /\ out[q].event # "penalty")
                    => out[q].period = 3 + k

\* the period a raw row's own label and period_id give
own_period(raw) ==
    period_to_numeric(period_id_fallback(replace_OT(CellOf(raw.period)), raw.period_id))

\* C9: for both nhlify settings the output period of a shootout row is what
\* its own label and period_id give: no other row's period is written into it.
C9_ShootoutNotFilled ==
    pc = "clean" =>
        \A q \in DOMAIN out :
            out[q].event = "shootout" => out[q].period = own_period(pbp[out[q].src + 1])

\* C9 restricted to nhlify=False
C9_ShootoutNotFilledUnmerged ==
    (pc = "clean" /\ ~nhlify) =>
        \A q \in DOMAIN out :
            out[q].event = "shootout" => out[q].period = own_period(pbp[out[q].src + 1])

\* game g has a textual OT period label
game_has_OT(g) ==
    \E i \in DOMAIN pbp : pbp[i].game_id = g /\ contains_OT(pbp[i].period)

\* the period of input row i as resolved from the row alone
resolved(i) ==
    IF pbp[i].event = "penalty"
    THEN (IF pbp[i].period = NaS THEN NA ELSE extract_digits(pbp[i].period))
    ELSE own_period(pbp[i])

\* input row i is left without a period by forward/backward fill in its
\* game: a shootout row that resolves to none, or a row of a game in which no
\* non-shootout row resolves to one
residual(i) ==
    IF pbp[i].event = "shootout" THEN resolved(i) = NA
    ELSE \A j \in DOMAIN pbp :
            (pbp[j].game_id = pbp[i].game_id /\ pbp[j].event # "shootout")
                => resolved(j) = NA

\* C10: in a game without a textual OT label a period still null after the
\* fill becomes 5, so no output row of that game has a null period; in a game
\* with an OT label it stays null.
C10_ShootoutSentinel ==
    pc = "clean" =>
        \A q \in DOMAIN out :
            /\ ~game_has_OT(out[q].game_id) =>
                  /\ out[q].period # NA
                  /\ residual(out[q].src + 1) => out[q].period = 5
            /\ (game_has_OT(out[q].game_id) /\ residual(out[q].src + 1))
                  => out[q].period = NA

\* the elapsed time the row's own period and seconds give
elapsed_of(r) ==
    IF r.period # NA /\ r.s # NA THEN r.s + Min(r.period - 1, 4) * 1200 ELSE NA

\* C11: every output row with a non-null period p and seconds s has elapsed
\* time s + min(p - 1, 4) * 1200, and a row whose period is null has no
\* elapsed time.
C11_ElapsedTime ==
    pc = "clean" => \A q \in DOMAIN out : out[q].elapsedTime = elapsed_of(out[q])

\* C11 restricted to nhlify=False
C11_ElapsedTimeUnmerged ==
    (pc = "clean" /\ ~nhlify) =>
        \A q \in DOMAIN out : out[q].elapsedTime = elapsed_of(out[q])

\* ------------------------------------------------------------- family B
FamilyB == league \in {"ahl", "pwhl"}

\* the input event of an output row
event_of(r) == pbp[r.src + 1]

\* the type claimed for the output row of a family B event
retyped(event) ==
    IF event.event = "shot" /\ event.details.isGoal = "true" THEN "goal"
    ELSE event.event

\* C12: for family B input without an event of type 'goal', for either value
\* of nhlify, an output row has type 'goal' if and only if it is a shot
\* carrying isGoal=true, every other row keeps its type, and the output has
\* as many rows as the input.
C12_GoalRetyping ==
    (pc = "clean" /\ FamilyB /\ ~has_goal_events(pbp)) =>
        /\ Len(out) = Len(pbp)
        /\ \A q \in DOMAIN out : out[q].event = retyped(event_of(out[q]))

\* C12 for nhlify=True and shots only
C12_GoalRetypingOfShots ==
    (pc = "clean" /\ FamilyB /\ ~has_goal_events(pbp) /\ nhlify) =>
        /\ Len(out) = Len(pbp)
        /\ \A q \in DOMAIN out :
              event_of(out[q]).event = "shot" => out[q].event = retyped(event_of(out[q]))

\* the columns of a family B row that describe the event
FieldsAhlPwhl == {"event", "game_id", "period", "elapsedTime", "x_location",
                  "y_location", "shot_type", "is_goal", "player1Id", "x", "y",
                  "x_norm", "y_norm", "shot_distance_ft", "shot_angle_deg"}

\* a null cell of column col of a family B row
null_ahl_pwhl(col, val) ==
    IF col \in {"event", "shot_type", "is_goal"} THEN val = NaS
    ELSE IF col \in {"game_id", "period", "elapsedTime", "x_location", "y_location",
                     "player1Id"} THEN val = NA
    ELSE val = NaF

\* merged is base with the adjacency merge of family A applied: every donor
\* of base is gone, its goal holds the donor's value in every field it had
\* null, and every other row is there with its fields unchanged
merged_like_family_A(base, merged) ==
    /\ \A p \in DOMAIN base :
          /\ Cardinality(rows_of(merged, base[p].src)) <= 1
          /\ rows_of(merged, base[p].src) = {} <=> is_donor(base, p)
    /\ \A p \in donors(base) :
          \A q \in rows_of(merged, base[p + 1].src) :
             \A col \in FieldsAhlPwhl :
                merged[q][col] = IF null_ahl_pwhl(col, base[p + 1][col])
                                 THEN base[p][col] ELSE base[p + 1][col]
    /\ \A p \in DOMAIN base :
          (~is_donor(base, p) /\ ~is_pair_goal(base, p)) =>
             \A q \in rows_of(merged, base[p].src) :
                \A col \in FieldsAhlPwhl : merged[q][col] = base[p][col]

\* the family B frame of the input, unmerged, in canonical order
CanonicalAhlPwhl == sort_values(clean_ahl_pwhl(pbp, FALSE).frame)

\* C13: for family B input with goal events, nhlify deletes every shot or
\* penaltyshot row immediately followed in canonical order by a goal row of
\* the same game with identical elapsed time, after every field null in the
\* goal row and non-null in the donor has been copied into the goal row, and
\* leaves all other rows unchanged.
C13_MergeAsFamilyA ==
    (pc = "clean" /\ FamilyB /\ nhlify /\ has_goal_events(pbp)) =>
        merged_like_family_A(CanonicalAhlPwhl, out)

\* C14: for family B, for both values of nhlify and every input order, any
\* two consecutive output rows are in non-decreasing order of (game id,
\* elapsed time, original input position).
C14_OrderingAhlPwhl == (pc = "clean" /\ FamilyB) => ordered(out)

\* C15: with nhlify=False clean_pbp and clean_ahl_pwhl delete no row and
\* merge no rows: the output holds exactly one row per input event.
C15_KeepsEveryRow ==
    (pc = "clean" /\ ~nhlify) =>
        /\ Len(out) = Len(pbp)
        /\ \A i \in DOMAIN pbp : Cardinality(rows_of(out, i - 1)) = 1

\* a shot and the goal right after it at the same time are both kept
C15_Witness ==
    /\ pc = "clean" /\ ~nhlify /\ league = "qmjhl"
    /\ Len(out) = Len(pbp)
    /\ donors(out) # {}

\* the raw coordinates of the input event of an output row
raw_x(r) == IF FamilyB THEN event_of(r).details.xLocation ELSE event_of(r).x_location

raw_y(r) == IF FamilyB THEN event_of(r).details.yLocation ELSE event_of(r).y_location

\* the derived coordinate fields of a row are all null
derived_null(r) ==
    /\ IF FamilyB THEN r.x_norm = NaF /\ r.y_norm = NaF ELSE r.x_norm = NA /\ r.y_norm = NA
    /\ r.shot_distance_ft = NaF
    /\ r.shot_angle_deg = NaF

\* the call is a coordinate transform of a frame of events with details
transforms == decoded = "list" /\ pbp # <<>> /\ pc # "raw" /\ ~nhlify
              /\ (FamilyB => \A i \in DOMAIN pbp : pbp[i].details.present)

\* C16: in both coordinate transforms no error is raised, a row whose raw x
\* or raw y is null has null normalized coordinates, distance and angle, and
\* a row whose two raw coordinates are non-null has a non-null distance and
\* angle.
C16_NullPropagation ==
    transforms =>
        /\ raised = "None"
        /\ \A q \in DOMAIN out :
              /\ (raw_x(out[q]) = NA \/ raw_y(out[q]) = NA) => derived_null(out[q])
              /\ (raw_x(out[q]) # NA /\ raw_y(out[q]) # NA) =>
                    (out[q].shot_distance_ft # NaF /\ out[q].shot_angle_deg # NaF)

\* C16 without the rows that lack one coordinate only
C16_NullPropagationBothNull ==
    transforms =>
        /\ raised = "None"
        /\ \A q \in DOMAIN out :
              /\ (raw_x(out[q]) = NA /\ raw_y(out[q]) = NA) => derived_null(out[q])
              /\ (raw_x(out[q]) # NA /\ raw_y(out[q]) # NA) =>
                    (out[q].shot_distance_ft # NaF /\ out[q].shot_angle_deg # NaF)

\* the output row q is the transform of its event at raw (x, y)
mirrored(q) ==
    LET raw == event_of(out[q])
        x_norm == IF raw.home = "1" THEN 600 - raw.x_location ELSE raw.x_location
    IN /\ out[q].x_norm = x_norm
       /\ out[q].y_norm = raw.y_location
       /\ out[q].x = Rat(x_norm - 300, 3)
       /\ out[q].y = Rat(raw.y_location - 150, 3)

located(q) == raw_x(out[q]) # NA /\ raw_y(out[q]) # NA

\* the output rows q and r are of a home event at raw (x, y) and an away
\* event at raw (600 - x, y)
mirror_images(q, r) ==
    /\ located(q) /\ located(r)
    /\ event_of(out[q]).home = "1" /\ event_of(out[r]).home = "0"
    /\ event_of(out[r]).x_location = 600 - event_of(out[q]).x_location
    /\ event_of(out[r]).y_location = event_of(out[q]).y_location

same_place(a, b) ==
    /\ a.x_norm = b.x_norm /\ a.y_norm = b.y_norm
    /\ a.x = b.x /\ a.y = b.y
    /\ a.shot_distance_ft = b.shot_distance_ft
    /\ a.shot_angle_deg = b.shot_angle_deg

\* C17: in family A an event at raw (x, y) has x_norm = 600 - x when its team
\* is home and x_norm = x otherwise, y_norm = y, x = (x_norm - 300) / 3 and
\* y = (y_norm - 150) / 3; a home event at raw (x, y) and an away event at
\* raw (600 - x, y) have identical x_norm, canonical coordinates, shot
\* distance and shot angle.
C17_Mirroring ==
    (pc = "clean" /\ ~FamilyB) =>
        /\ \A q \in DOMAIN out : located(q) => mirrored(q)
        /\ \A q, r \in DOMAIN out : mirror_images(q, r) => same_place(out[q], out[r])

\* a home shot and an away shot at mirrored raw places, in a merged output
C17_Witness ==
    /\ pc = "clean" /\ ~FamilyB /\ nhlify
    /\ \E q, r \in DOMAIN out :
          /\ mirror_images(q, r)
          /\ out[q].x_norm # event_of(out[q]).x_location
          /\ out[r].x_norm = event_of(out[r]).x_location

\* C18: when the decoded top-level response of a game is neither a list nor
\* a dict, scraping the game fails with a ParsingError and returns no rows.
C18_ParsingError ==
    (pc # "raw" /\ decoded \notin {"list", "dict"}) =>
        (raised = "ParsingError" /\ out = <<>>)

\* some event of the response has an x and some event has a y coordinate
located_somewhere ==
    /\ \E i \in DOMAIN pbp : pbp[i].details.xLocation # NA
    /\ \E i \in DOMAIN pbp : pbp[i].details.yLocation # NA

\* C19: for a family B event that lacks the shooter, the goalie, the period
\* or the whole details object, canonicalization completes without raising
\* and the corresponding fields of its row are null.
C19_AbsentSubObjects ==
    (pc # "raw" /\ FamilyB /\ decoded = "list" /\ located_somewhere) =>
        /\ raised = "None"
        /\ \A q \in DOMAIN out :
              /\ event_of(out[q]).details.shooter = NA => out[q].player1Id = NA
              /\ event_of(out[q]).details.period = NaS => out[q].period = NA
              /\ ~event_of(out[q]).details.present =>
                    \A col \in FieldsAhlPwhl \ {"event", "game_id"} :
                       null_ahl_pwhl(col, out[q][col])

\* C19 as to the shooter of an event that has details, when nothing is raised
C19_AbsentShooter ==
    (pc = "clean" /\ FamilyB /\ decoded = "list") =>
        \A q \in DOMAIN out :
           (event_of(out[q]).details.present /\ event_of(out[q]).details.shooter = NA)
               => out[q].player1Id = NA

\* C26: for a family B event whose period label is missing or non-numeric,
\* canonicalization does not raise and the output period of that row is
\* null.
C26_MissingPeriodStaysNull ==
    (/\ pc # "raw" /\ FamilyB /\ decoded = "list" /\ located_somewhere
     /\ \A i \in DOMAIN pbp : pbp[i].details.present) =>
        /\ raised = "None"
        /\ \A q \in DOMAIN out :
              to_numeric(event_of(out[q]).details.period) = NA => out[q].period = NA

\* C26 as to the exception: a missing or non-numeric period label raises
\* nothing
C26_MissingPeriodNoRaise ==
    (/\ pc # "raw" /\ FamilyB /\ decoded = "list" /\ located_somewhere
     /\ \A i \in DOMAIN pbp : pbp[i].details.present) =>
        raised = "None"

\* ---------------------------------------------------------------- purity
\* C21: clean_pbp and clean_ahl_pwhl leave the caller's input frame
\* unchanged (no column added, no value modified), whether they return or
\* raise, for every input shape, a family B frame without a details column
\* included.
C21_Purity == [][pbp' = pbp]_vars

\* C21 for family A, and for the family B frames that have a details column
C21_PurityFlattened ==
    [][(league = "qmjhl" \/ pbp = <<>> \/ has_details(pbp)) => pbp' = pbp]_vars

\* ------------------------------------------------------------ gap filling
\* the non-shootout rows before (after) input row i that resolve to a
\* period; same_game restricts them to the game of row i
donors_before(i, same_game) ==
    {j \in 1..(i - 1) : /\ pbp[j].event # "shootout"
                        /\ resolved(j) # NA
                        /\ same_game => pbp[j].game_id = pbp[i].game_id}

donors_after(i, same_game) ==
    {j \in (i + 1)..Len(pbp) : /\ pbp[j].event # "shootout"
                               /\ resolved(j) # NA
                               /\ same_game => pbp[j].game_id = pbp[i].game_id}

\* the latest row of a non-empty set of rows, and the earliest
latest(rows) == CHOOSE j \in rows : \A k \in rows : k <= j

earliest(rows) == CHOOSE j \in rows : \A k \in rows : j <= k

\* C25: every non-shootout row with a null period takes the period of the
\* nearest preceding non-shootout row of the same game that has one or, when
\* none precedes it, of the nearest following such row of the same game; a
\* filled value is never taken from a row of a different game.
C25_GapFilling ==
    pc = "clean" =>
        \A q \in DOMAIN out :
            LET i == out[q].src + 1
            IN (pbp[i].event # "shootout" /\ resolved(i) = NA) =>
                  IF donors_before(i, TRUE) # {}
                  THEN out[q].period = resolved(latest(donors_before(i, TRUE)))
                  ELSE IF donors_after(i, TRUE) # {}
                  THEN out[q].period = resolved(earliest(donors_after(i, TRUE)))
                  ELSE out[q].period \in {NA, 5}

\* C25 for the frames that hold one game
C25_GapFillingOneGame ==
    (pc = "clean" /\ \A i, j \in DOMAIN pbp : pbp[i].game_id = pbp[j].game_id) =>
        \A q \in DOMAIN out :
            LET i == out[q].src + 1
            IN (pbp[i].event # "shootout" /\ resolved(i) = NA) =>
                  IF donors_before(i, TRUE) # {}
                  THEN out[q].period = resolved(latest(donors_before(i, TRUE)))
                  ELSE IF donors_after(i, TRUE) # {}
                  THEN out[q].period = resolved(earliest(donors_after(i, TRUE)))
                  ELSE out[q].period \in {NA, 5}

\* -------------------------------------------------------- order of periods
\* q1 and q2 are rows of one game with resolved periods, q1 of the earlier
\* period, both with seconds within a period
earlier_period(q1, q2) ==
    /\ out[q1].game_id = out[q2].game_id
    /\ out[q1].period # NA /\ out[q2].period # NA
    /\ out[q1].period < out[q2].period
    /\ out[q1].s \in 0..1199 /\ out[q2].s \in 0..1199

\* C27: for any two events of the same game with resolved periods p1 < p2
\* (regulation or any overtime 4..12) and seconds within the period, the
\* period-p1 event has a strictly smaller elapsed time and appears before
\* the period-p2 event.
C27_OrderRespectsPeriods ==
    pc = "clean" =>
        \A q1, q2 \in DOMAIN out :
            earlier_period(q1, q2) =>
                /\ out[q1].elapsedTime < out[q2].elapsedTime
                /\ q1 < q2

\* C27 for the periods up to the second overtime
C27_OrderRespectsPeriodsTo5 ==
    pc = "clean" =>
        \A q1, q2 \in DOMAIN out :
            (earlier_period(q1, q2) /\ out[q2].period <= 5) =>
                /\ out[q1].elapsedTime < out[q2].elapsedTime
                /\ q1 < q2

\* ---------------------------------------------------------- faceoff slots
\* the output row that came from input row i
output_of(i) == CHOOSE q \in DOMAIN out : out[q].src = i - 1

\* slot 1 and the event team hold the player `first`, slot 2 holds `second`
slots_hold(r, first, second) ==
    /\ r.player1Id = first
    /\ r.eventTeamId = team_id_of(first)
    /\ r.player2Id = second

\* C24: for every faceoff event, slot 1 and the event team hold the home
\* player when home_win is 1 and the visitor player for any other home_win
\* value, and slot 2 always holds the player of the opposing side.
C24_FaceoffSlots ==
    pc = "clean" =>
        \A i \in DOMAIN pbp :
            pbp[i].event = "faceoff" =>
                IF to_numeric(pbp[i].home_win) = 1
                THEN slots_hold(out[output_of(i)], pbp[i].player_home, pbp[i].player_visitor)
                ELSE slots_hold(out[output_of(i)], pbp[i].player_visitor, pbp[i].player_home)

\* C24 for the faceoffs that come with dotted keys and a home_win of 1 or 0
C24_FaceoffSlotsWonOrLost ==
    pc = "clean" =>
        \A i \in DOMAIN pbp :
            (/\ pbp[i].event = "faceoff"
             /\ pbp[i].normalized
             /\ to_numeric(pbp[i].home_win) \in {0, 1}) =>
                IF to_numeric(pbp[i].home_win) = 1
                THEN slots_hold(out[output_of(i)], pbp[i].player_home, pbp[i].player_visitor)
                ELSE slots_hold(out[output_of(i)], pbp[i].player_visitor, pbp[i].player_home)

\* ------------------------------------------------------------- flattener
\* the frame the last application of the flattener was given, and its column
applied_to == IF pc = "plus" THEN pbp ELSE expand_on_ice_wide(pbp, "plus", FALSE)

applied_col == IF pc = "plus" THEN "plus" ELSE "minus"

\* the frame lacks the source column, or its list is null or empty on every row
nothing_to_expand(df, col) ==
    \/ col \notin df.columns
    \/ \A i \in DOMAIN df.rows : df.rows[i][col].isna \/ Len(df.rows[i][col].list) = 0

no_op(df, col, res) ==
    nothing_to_expand(df, col) =>
        /\ res = df
        /\ \A i \in DOMAIN res.rows :
              IF col = "plus" THEN res.rows[i].plusPlayer = <<>>
              ELSE res.rows[i].minusPlayer = <<>>
        /\ expand_on_ice_wide(res, col, FALSE) = res

\* C22: applying _expand_on_ice_wide to a frame that lacks the source list
\* column, or whose source list is null or empty on every row, returns a
\* frame with the same rows, columns and values, creates no prefixed player
\* column, and applying it again gives the same result.
C22_FlattenerNoOp ==
    pc \in {"plus", "minus"} => no_op(applied_to, applied_col, out)

\* a frame with a plus column holding a null and an empty list has been
\* through the flattener
C22_Witness ==
    /\ pc = "plus"
    /\ "plus" \in pbp.columns
    /\ nothing_to_expand(pbp, "plus")
    /\ \E i, j \in DOMAIN pbp.rows :
          pbp.rows[i].plus.isna /\ ~pbp.rows[j].plus.isna

\* the slots of a row after the flattener
slots(r, col) == IF col = "plus" THEN r.plusPlayer ELSE r.minusPlayer

\* slot k holds the attributes of the participant record p
holds(slot, p) ==
    /\ slot.Id = p.player_id
    /\ slot.JerseyNumber = p.jersey_number
    /\ slot.TeamId = p.team_id
    /\ slot.Team = p.team_code
    /\ slot.FirstName = p.first_name
    /\ slot.LastName = p.last_name

empty_slot(slot) ==
    /\ slot.Id = NA /\ slot.JerseyNumber = NA /\ slot.TeamId = NA
    /\ slot.Team = NaS /\ slot.FirstName = NaS /\ slot.LastName = NaS

\* the number of records of a list cell
n_records(cell) == IF cell.isna THEN 0 ELSE Len(cell.list)

in_list_order(df, col, res) ==
    /\ Len(res.rows) = Len(df.rows)
    /\ res.columns = df.columns
    /\ \A i \in DOMAIN df.rows :
          /\ res.rows[i].index = df.rows[i].index
          /\ res.rows[i].event = df.rows[i].event
          /\ res.rows[i].plus = df.rows[i].plus
          /\ res.rows[i].minus = df.rows[i].minus
          /\ col = "plus" => res.rows[i].minusPlayer = df.rows[i].minusPlayer
          /\ col = "minus" => res.rows[i].plusPlayer = df.rows[i].plusPlayer
          /\ col \in df.columns =>
                /\ \A j \in DOMAIN df.rows :
                      n_records(df.rows[j][col]) <= Len(slots(res.rows[i], col))
                /\ \E j \in DOMAIN df.rows :
                      n_records(df.rows[j][col]) = Len(slots(res.rows[i], col))
                /\ \A k \in DOMAIN slots(res.rows[i], col) :
                      IF k <= n_records(df.rows[i][col])
                      THEN holds(slots(res.rows[i], col)[k], df.rows[i][col].list[k])
                      ELSE empty_slot(slots(res.rows[i], col)[k])

\* C23: for a row whose plus (or minus) list holds n participant records the
\* flattener puts the attributes of the k-th element, in list order, into
\* the slot k columns for k = 1..n, leaves the slots k > n up to the longest
\* list of the frame null, and returns the same rows in the same order with
\* every pre-existing column value unchanged.
C23_FlattenerOrder ==
    pc \in {"plus", "minus"} => in_list_order(applied_to, applied_col, out)

\* both lists expanded, in a frame with a row of two plus skaters and a row
\* of one
C23_Witness ==
    /\ pc = "minus"
    /\ \E i, j \in DOMAIN pbp.rows :
          /\ n_records(pbp.rows[i].plus) = 2
          /\ n_records(pbp.rows[j].plus) = 1
          /\ n_records(pbp.rows[j].minus) = 1
          /\ Len(out.rows[j].plusPlayer) = 2

\* ---------------------------------------------------------- BatchScraper
\* the entries of the BatchResult that account for the item of future i
entries_of(i) ==
    Cardinality({k \in DOMAIN result.successful :
                    result.successful[k] = data_of(futures[i].item)})
    + Cardinality({k \in DOMAIN result.failed :
                      /\ result.failed[k].item = futures[i].item
                      /\ result.failed[k].error = futures[i].last_error})

\* every item is in the BatchResult exactly once
accounted ==
    /\ \A i \in DOMAIN futures : entries_of(i) = 1
    /\ Len(result.successful) + Len(result.failed) = Len(futures)

\* C20: for every combination of per-item outcomes (success, APIError,
\* RateLimitError with or without retry_after, any other exception)
\* scrape_batch returns a BatchResult in which every input item is accounted
\* for exactly once, as one entry of successful or one entry of failed
\* carrying the item and its error message; no failure aborts the batch.
C20_BatchIsolation ==
    pc \in {"returned", "error"} => (pc = "returned" /\ accounted)

\* C20 for the batches that scrape_batch returns from
C20_AccountedWhenReturned == pc = "returned" => accounted

\* the calls of func a finished task made: at most max_retries, and none
\* after a success or after an exception that is neither APIError nor
\* RateLimitError
bounded_calls(f) ==
    /\ Len(f.calls) <= max_retries
    /\ \A k \in 1..(Len(f.calls) - 1) : f.calls[k] \in {"APIError", "RateLimitError"}

\* the task returned (True, result, None) or (False, None, last error)
returned_tuple(f) ==
    /\ f.exception = "None"
    /\ \/ f.success /\ f.data = data_of(f.item) /\ f.error = NaS
          /\ f.calls[Len(f.calls)] = "return"
       \/ ~f.success /\ f.data = <<>> /\ f.error = f.calls[Len(f.calls)]
          /\ f.calls[Len(f.calls)] # "return"

\* C28: for every item _execute_with_retry calls the scraped function at
\* most max_retries times, makes no further call after the first success or
\* after the first exception that is neither APIError nor RateLimitError,
\* and ends by returning (True, result, None) or (False, None, message of
\* the last error).
C28_BoundedRetry ==
    \A i \in DOMAIN futures :
        futures[i].state = "finished" =>
            bounded_calls(futures[i]) /\ returned_tuple(futures[i])

\* C28 as to termination: under FairBatch every task ends
C28_Terminates == <>(\A i \in DOMAIN futures : futures[i].state = "finished")

\* C28 as to the number of calls
C28_BoundedCalls ==
    \A i \in DOMAIN futures :
        /\ Len(futures[i].calls) <= max_retries
        /\ futures[i].state = "finished" => bounded_calls(futures[i])

\* C28 as to the tuple, for the tasks that do not end in a RateLimitError
\* without retry_after
C28_ReturnedTuple ==
    \A i \in DOMAIN futures :
        (futures[i].state = "finished" /\ futures[i].exception = "None") =>
            returned_tuple(futures[i])

\* ------------------------------------------------------------ rate limit
\* C29: with rate_limit = r set and several worker threads running
\* concurrently, for every interleaving of the workers' _rate_limit_wait
\* steps any two calls of the scraped function start at least 1/r apart.
C29_RateLimit ==
    \A a, b \in DOMAIN starts :
        a < b => starts[b].at - starts[a].at >= min_request_interval

\* C29 between a call and the calls that had started before its
\* _rate_limit_wait read the clock
C29_RateLimitOfSeenCalls ==
    \A a, b \in DOMAIN starts :
        a <= starts[b].seen => starts[b].at - starts[a].at >= min_request_interval

\* ----------------------------------------------------------------- cache
\* what the operations on the key alone make get(key) return: the value of
\* its last set, as JSON gives it back, unless the key was invalidated since
\* or the entry has expired
own_value(key) ==
    IF written[key].exists /\ ~is_expired(written[key], now)
    THEN written[key].data
    ELSE NoValue

\* C30: for any two distinct keys k1 and k2 and any sequence of Cache
\* operations, set(k1, v) never changes what get(k2) returns and
\* invalidate(k1) never removes the entry stored under k2; get(k) returns only
\* a value that was stored by set(k, ...) and has not expired.
C30_KeyIsolation ==
    /\ \A key \in Keys : get(cache_dir, key, now) = own_value(key)
    /\ (out.op = "get" /\ out.at = now) => out.value = own_value(out.key)

\* C30 for the keys whose file name no other key shares
C30_KeyIsolationOwnFile ==
    \A key \in Keys :
        (\A other \in Keys \ {key} : get_cache_path(other) # get_cache_path(key)) =>
            /\ get(cache_dir, key, now) = own_value(key)
            /\ (out.op = "get" /\ out.key = key /\ out.at = now) =>
                  out.value = own_value(key)

====
